---- MODULE Spec2Model ----
(***************************************************************************)
(* Model of the polysat propagation core:                                  *)
(*   - src/src/math/polysat/viable.cpp (interval build, NEW_VIABLE): the    *)
(*     viable domain of every problem variable, its trail, the inequality  *)
(*     cache and the conflict callback;                                    *)
(*   - src/src/math/polysat/linear_solver.cpp: the trail, the monomial     *)
(*     interner, the per-width engine table and the constraint router.     *)
(* The two subsystems share no state.  SpecNarrow and SpecViable run the   *)
(* first (narrowing with wide coefficients; narrowing with backtracking),  *)
(* SpecLinear and SpecRouter the second (backtracking on the supported     *)
(* widths; routing and check() on every width).                            *)
(***************************************************************************)
EXTENDS Integers, Sequences, FiniteSets, TLC

\* ------------------------------------------------------------------------
\* Bounds of the model
\* ------------------------------------------------------------------------

\* widths of the problem variables range over 1..MaxBits
MaxBits == 4
\* coefficients and values handed to the viable operations are <= MaxCoeff
MaxCoeff == 3
\* the same, in the runs with backtracking
MaxSmall == 1
\* number of problem variables of the viable tracker
NumPVars == 2
\* depth of the viable trail
MaxViableTrail == 2
\* entries of the inequality cache and the cap of an entry's activity counter
MaxCache == 1
MaxActivity == 2
\* entries of the inequality cache in the runs on the cache
MaxKeys == 2

\* number of boolean variables (constraints) of the linear solver
NumBVars == 1
\* length of the linear solver's trail
MaxLTrail == 5

\* entries of the linear solver's trail in the runs without backtracking
MaxRTrail == 7

\* ------------------------------------------------------------------------
\* Program constants
\* ------------------------------------------------------------------------

\* unsigned budget = 10;
Budget == 10

\* ------------------------------------------------------------------------
\* State
\* ------------------------------------------------------------------------

VARIABLES
    num_bits,         \* s.size(v): the width of the problem variables
    m_viable,         \* viable::m_viable: pvar -> viable_set (emp, lo, hi)
    m_viable_trail,   \* viable::m_viable_trail: sequence of <<v, viable_set>>
    s_trail,          \* number of viable_i entries on solver::m_trail
    m_ineq_cache,     \* viable::m_ineq_cache: the entries [key, repr, m_activity]
    vlast,            \* the last viable call, m_viable before it, the values that
                      \* satisfy the constraint it asserted, the callbacks it made (observer)
    vhist             \* m_viable as it was before each call still on the trail (observer)

vvars == <<num_bits, m_viable, m_viable_trail, s_trail, m_ineq_cache, vlast, vhist>>

PVars == 0 .. (NumPVars - 1)

Pow2(n) == 2 ^ n

Min(a, b) == IF a < b THEN a ELSE b

\* the values of an n-bit variable
Values(n) == 0 .. (Pow2(n) - 1)

\* the coefficients and values the operations are called with
Coeffs(n) == 0 .. Min(MaxCoeff, Pow2(n) - 1)

SmallCoeffs(n) == 0 .. Min(MaxSmall, Pow2(n) - 1)

\* ------------------------------------------------------------------------
\* mod_interval<rational> (the base class of viable_set)
\* ------------------------------------------------------------------------

\* mod_interval::free(): lo = hi = 0, not empty
free(n) == [m_num_bits |-> n, emp |-> FALSE, lo |-> 0, hi |-> 0]

is_empty(S) == S.emp

is_free(S) == ~S.emp /\ S.lo = S.hi

set_empty(S) == [S EXCEPT !.emp = TRUE]

\* lo <= n < hi, or the wrap-around reading when hi <= lo
contains(S, n) ==
    IF is_empty(S) THEN FALSE
    ELSE IF is_free(S) THEN TRUE
    ELSE IF S.lo < S.hi THEN S.lo <= n /\ n < S.hi
    ELSE S.lo <= n \/ n < S.hi

\* ------------------------------------------------------------------------
\* viable_set
\* ------------------------------------------------------------------------

p2(S) == Pow2(S.m_num_bits)

is_max(S, a) == a + 1 = p2(S)

is_singleton(S) ==
    ~is_empty(S) /\ (S.lo + 1 = S.hi \/ (S.hi = 0 /\ is_max(S, S.lo)))

\* find_hint that returns the hint whether it is in the set or not
find_hint_blind(S, d) ==
    IF is_empty(S) THEN [find |-> "empty", val |-> -1]
    ELSE IF S.lo + 1 = S.hi \/ (S.hi = 0 /\ is_max(S, S.lo))
    THEN [find |-> "singleton", val |-> d]
    ELSE [find |-> "multiple", val |-> d]

\* viable_set::find_hint(d, val): val is written unless the set is empty
\* (-1: val is left as the caller passed it)
find_hint(S, d) ==
    IF is_empty(S) THEN [find |-> "empty", val |-> -1]
    ELSE LET val == IF contains(S, d) THEN d ELSE S.lo
         IN  IF S.lo + 1 = S.hi \/ (S.hi = 0 /\ is_max(S, S.lo))
             THEN [find |-> "singleton", val |-> val]
             ELSE [find |-> "multiple", val |-> val]

\* set_hi(d) that takes d for the open end of the interval
set_hi_open(S, d) ==
    IF is_max(S, d) THEN S
    ELSE IF is_free(S) THEN [S EXCEPT !.lo = 0, !.hi = d]
    ELSE IF S.lo > d THEN set_empty(S)
    ELSE [S EXCEPT !.hi = d]

\* viable_set::set_hi(d): x <= d
set_hi(S, d) ==
    IF is_max(S, d) THEN S
    ELSE IF is_free(S) THEN [S EXCEPT !.lo = 0, !.hi = d + 1]
    ELSE IF S.lo > d THEN set_empty(S)
    ELSE IF S.hi # 0 \/ d + 1 < S.hi THEN [S EXCEPT !.hi = d + 1]
    ELSE IF d + 1 = S.hi THEN S
    ELSE S   \* "set hi" is printed, the set is left as it is

\* set_lo(b) that also empties the set when b is its last value
set_lo_strict(S, b) ==
    IF S.hi # 0 /\ S.hi <= b + 1 THEN set_empty(S)
    ELSE IF is_free(S) THEN [S EXCEPT !.lo = b, !.hi = 0]
    ELSE IF S.lo < b THEN [S EXCEPT !.lo = b]
    ELSE S

\* viable_set::set_lo(b): x >= b
set_lo(S, b) ==
    IF S.hi # 0 /\ S.hi <= b THEN set_empty(S)
    ELSE IF is_free(S) THEN [S EXCEPT !.lo = b, !.hi = 0]
    ELSE IF S.lo < b THEN [S EXCEPT !.lo = b]
    ELSE IF S.lo = b THEN S
    ELSE S   \* "set lo" is printed, the set is left as it is

\* viable_set::intersect_eq(a, is_positive): x = a, or x # a
intersect_eq_val(S, a, is_positive) ==
    IF is_empty(S) THEN S
    ELSE IF is_positive THEN
        IF ~contains(S, a) THEN set_empty(S)
        ELSE IF is_max(S, a) THEN [S EXCEPT !.lo = a, !.hi = 0]
        ELSE [S EXCEPT !.lo = a, !.hi = a + 1]
    ELSE
        IF ~contains(S, a) THEN S
        ELSE IF a = S.lo /\ a + 1 = S.hi THEN set_empty(S)
        ELSE IF a = S.lo /\ S.hi = 0 /\ is_max(S, a) THEN set_empty(S)
        ELSE IF a = S.lo /\ ~is_max(S, a) THEN [S EXCEPT !.lo = a + 1]
        ELSE IF a + 1 = S.hi THEN [S EXCEPT !.hi = a]
        ELSE IF S.hi = 0 /\ is_max(S, a) THEN [S EXCEPT !.hi = a]
        ELSE S   \* "unhandled diseq" is printed, the set is left as it is

\* viable_set::set_ne(a)
set_ne(S, a) == intersect_eq_val(S, a, FALSE)

is_odd(a) == a % 2 = 1

\* rational::mult_inverse(num_bits, a_inv): the inverse of an odd a modulo 2^num_bits
mult_inverse(a, n) == CHOOSE x \in Values(n) : (a * x) % Pow2(n) = 1

\* the closed form for odd a that does not negate b
intersect_eq_odd_no_neg(S, a, b, is_positive) ==
    [ok |-> is_odd(a),
     set |-> IF is_odd(a)
             THEN intersect_eq_val(S, (mult_inverse(a, S.m_num_bits) * b) % p2(S), is_positive)
             ELSE S]

\* viable_set::intersect_eq(a, b, is_positive): the closed form for odd a;
\* ok is the bool the code returns
intersect_eq_odd(S, a, b, is_positive) ==
    IF is_odd(a) THEN
        IF b = 0 THEN [ok |-> TRUE, set |-> intersect_eq_val(S, b, is_positive)]
        ELSE [ok |-> TRUE,
              set |-> intersect_eq_val(S,
                          (mult_inverse(a, S.m_num_bits) * (0 - b)) % p2(S),
                          is_positive)]
    ELSE [ok |-> FALSE, set |-> S]

\* the predicate of viable_set::intersect_eq(a, b, is_positive, budget),
\* as the function x -> eval(x)
eval_eq(S, a, b, is_positive) ==
    [x \in Values(S.m_num_bits) |-> is_positive = ((a * x + b) % p2(S) = 0)]

\* the predicate of viable_set::intersect_ule(a, b, c, d, is_positive, budget)
eval_ule(S, a, b, c, d, is_positive) ==
    [x \in Values(S.m_num_bits) |->
        is_positive = ((a * x + b) % p2(S) <= (c * x + d) % p2(S))]

\* first loop of viable_set::narrow: lo += 1; set_lo(lo)
RECURSIVE narrow_lo(_, _, _)
narrow_lo(S, eval, budget) ==
    IF budget > 0 /\ ~eval[S.lo] /\ ~is_max(S, S.lo) /\ ~is_empty(S)
    THEN LET S1 == [S EXCEPT !.lo = S.lo + 1]
         IN  narrow_lo(set_lo(S1, S1.lo), eval, budget - 1)
    ELSE [set |-> S, budget |-> budget]

\* second loop of viable_set::narrow: hi = hi - 1; set_hi(hi), where the
\* argument of set_hi is a reference to hi itself
RECURSIVE narrow_hi(_, _, _)
narrow_hi(S, eval, budget) ==
    IF budget > 0 /\ S.hi > 0 /\ ~eval[S.hi - 1] /\ ~is_empty(S)
    THEN LET S1 == [S EXCEPT !.hi = S.hi - 1]
         IN  narrow_hi(set_hi(S1, S1.hi), eval, budget - 1)
    ELSE [set |-> S, budget |-> budget]

\* viable_set::narrow(eval, budget)
narrow(S, eval, budget) ==
    LET r == narrow_lo(S, eval, budget)
    IN  narrow_hi(r.set, eval, r.budget)

\* viable_set::intersect_ule(a, b, c, d, is_positive): the closed forms
intersect_ule_fast(S, a, b, c, d, is_positive) ==
    IF is_odd(a) /\ b = 0 /\ c = 0 /\ d = 0
    THEN [ok |-> TRUE, set |-> intersect_eq_val(S, b, is_positive)]
    ELSE IF a = 1 /\ b = 0 /\ c = 0
    THEN [ok |-> TRUE,
          set |-> IF is_positive THEN set_hi(S, d)
                  ELSE IF is_max(S, d) THEN set_empty(S)
                  ELSE set_lo(S, d + 1)]
    ELSE IF a = 0 /\ c = 1 /\ d = 0
    THEN [ok |-> TRUE,
          set |-> IF is_positive THEN set_lo(S, b)
                  ELSE IF b = 0 THEN set_empty(S)
                  ELSE set_hi(S, b - 1)]
    ELSE [ok |-> FALSE, set |-> S]

\* ------------------------------------------------------------------------
\* dd::fdd (the decision-diagram encoding of an n-bit variable); a diagram
\* is modelled by the set of values at which it is true
\* ------------------------------------------------------------------------

\* bddv: ((a * x) + b) <= ((c * x) + d) over the bits of x
bdd_ule(n, a, b, c, d) ==
    {x \in Values(n) : (a * x + b) % Pow2(n) <= (c * x + d) % Pow2(n)}

\* fdd::sup(b, lo): false when b is false at lo; otherwise lo becomes the
\* largest value such that b is true at lo and at all values between
fdd_sup(n, b, lo) ==
    IF lo \notin b THEN [ok |-> FALSE, bound |-> lo]
    ELSE [ok |-> TRUE,
          bound |-> CHOOSE x \in lo .. (Pow2(n) - 1) :
                        /\ \A y \in lo .. x : y \in b
                        /\ (x + 1 \in Values(n) => x + 1 \notin b)]

\* ------------------------------------------------------------------------
\* viable
\* ------------------------------------------------------------------------

\* the key of an ineq_entry
ineq_key(sz, a, b, c, d) == <<sz, a, b, c, d>>

\* m_ineq_cache.find(&entry0, other): the entries with the key of entry0
cache_find(cache, key) == {i \in 1 .. Len(cache) : cache[i].key = key}

\* viable::push_viable(v): the entry pushed on m_viable_trail
push_viable(trail, viable, v) == Append(trail, <<v, viable[v]>>)

\* pop_viable() that drops the entry without putting the domain back
pop_viable_drop(trail, viable) ==
    [viable |-> viable, trail |-> SubSeq(trail, 1, Len(trail) - 1)]

\* viable::pop_viable()
pop_viable(trail, viable) ==
    LET p == trail[Len(trail)]
    IN  [viable |-> [viable EXCEPT ![p[1]] = p[2]],
         trail  |-> SubSeq(trail, 1, Len(trail) - 1)]

\* body of viable::intersect_eq after push_viable: the closed form, else the
\* bounded search; nothing is done when the budget is used up
viable_intersect_eq(S, a, b, is_positive) ==
    LET r == intersect_eq_odd(S, a, b, is_positive)
    IN  IF r.ok THEN [set |-> r.set, budget |-> Budget]
        ELSE narrow(r.set, eval_eq(r.set, a, b, is_positive), Budget)

\* the diagram fallback with an entry inserted on every use
ule_fallback_no_find(S, cache, a, b, c, d, is_positive) ==
    LET sz     == S.m_num_bits
        cache1 == Append(cache, [key |-> ineq_key(sz, a, b, c, d),
                                 repr |-> bdd_ule(sz, a, b, c, d),
                                 m_activity |-> 1])
        gt     == IF is_positive THEN Values(sz) \ cache1[Len(cache1)].repr
                  ELSE cache1[Len(cache1)].repr
        r      == fdd_sup(sz, gt, S.lo)
        S1     == IF r.ok THEN set_ne(set_lo(S, r.bound), r.bound) ELSE S
    IN  [set |-> S1, cache |-> cache1]

\* the diagram fallback of viable::intersect_ule (budget == 0): look the
\* entry up in m_ineq_cache, insert it on a miss, count the use, and raise
\* lo past the values at which the negated constraint gt holds
ule_fallback(S, cache, a, b, c, d, is_positive) ==
    LET sz     == S.m_num_bits
        key    == ineq_key(sz, a, b, c, d)
        cache1 == IF cache_find(cache, key) = {}
                  THEN Append(cache, [key |-> key, repr |-> bdd_ule(sz, a, b, c, d),
                                      m_activity |-> 0])
                  ELSE cache
        other  == CHOOSE i \in cache_find(cache1, key) : TRUE
        gt     == IF is_positive THEN Values(sz) \ cache1[other].repr
                  ELSE cache1[other].repr
        cache2 == [cache1 EXCEPT ![other].m_activity = @ + 1]
        r      == fdd_sup(sz, gt, S.lo)
        S1     == IF r.ok THEN set_ne(set_lo(S, r.bound), r.bound) ELSE S
        \* fdd::inf on hi - 1 only prints "TODO: new upper bound"
    IN  [set |-> S1, cache |-> cache2]

\* body of viable::intersect_ule after push_viable
viable_intersect_ule(S, cache, a, b, c, d, is_positive) ==
    LET r == intersect_ule_fast(S, a, b, c, d, is_positive)
    IN  IF r.ok THEN [set |-> r.set, cache |-> cache, budget |-> Budget]
        ELSE LET n == narrow(r.set, eval_ule(r.set, a, b, c, d, is_positive), Budget)
             IN  IF n.budget = 0
                 THEN LET f == ule_fallback(n.set, cache, a, b, c, d, is_positive)
                      IN  [set |-> f.set, cache |-> f.cache, budget |-> 0]
                 ELSE [set |-> n.set, cache |-> cache, budget |-> n.budget]

\* a tracker that never notifies the solver
set_conflict_never(S, v) == <<>>

\* if (m_viable[v].is_empty()) s.set_conflict(v): the calls of the callback
set_conflict(S, v) == IF is_empty(S) THEN <<v>> ELSE <<>>

\* the values that satisfy a*x + b = 0 (is_positive) or a*x + b # 0
SatEq(n, a, b, is_positive) ==
    {x \in Values(n) : is_positive = ((a * x + b) % Pow2(n) = 0)}

\* the values that satisfy a*x + b <= c*x + d (is_positive) or its negation
SatUle(n, a, b, c, d, is_positive) ==
    {x \in Values(n) :
        is_positive = ((a * x + b) % Pow2(n) <= (c * x + d) % Pow2(n))}

CacheOk(cache, cap) ==
    /\ Len(cache) <= cap
    /\ \A i \in 1 .. Len(cache) : cache[i].m_activity <= MaxActivity

EmptyCache == <<>>

VInit ==
    /\ num_bits \in 1 .. MaxBits
    /\ m_viable = [v \in PVars |-> free(num_bits)]
    /\ m_viable_trail = <<>>
    /\ s_trail = 0
    /\ m_ineq_cache = EmptyCache
    /\ vlast = [op |-> "init", v |-> 0, before |-> m_viable, expect |-> m_viable,
                sat |-> {}, conflict |-> <<>>, budget |-> Budget]
    /\ vhist = <<>>

\* viable::intersect_eq(a, v, b, is_positive)
IntersectEq(v, a, b, is_positive) ==
    /\ \E r \in {viable_intersect_eq(m_viable[v], a, b, is_positive)} :
           /\ s_trail' = s_trail + 1
           /\ m_viable_trail' = push_viable(m_viable_trail, m_viable, v)
           /\ m_viable' = [m_viable EXCEPT ![v] = r.set]
           /\ vlast' = [op |-> "eq", v |-> v, before |-> m_viable, expect |-> m_viable,
                        sat |-> SatEq(num_bits, a, b, is_positive),
                        conflict |-> set_conflict(r.set, v), budget |-> r.budget]
    /\ vhist' = Append(vhist, m_viable)
    /\ UNCHANGED <<num_bits, m_ineq_cache>>

\* viable::intersect_ule(v, a, b, c, d, is_positive)
IntersectUle(v, a, b, c, d, is_positive) ==
    /\ \E r \in {viable_intersect_ule(m_viable[v], m_ineq_cache, a, b, c, d, is_positive)} :
           /\ s_trail' = s_trail + 1
           /\ m_viable_trail' = push_viable(m_viable_trail, m_viable, v)
           /\ m_viable' = [m_viable EXCEPT ![v] = r.set]
           /\ m_ineq_cache' = r.cache
           /\ vlast' = [op |-> "ule", v |-> v, before |-> m_viable, expect |-> m_viable,
                        sat |-> SatUle(num_bits, a, b, c, d, is_positive),
                        conflict |-> set_conflict(r.set, v), budget |-> r.budget]
    /\ vhist' = Append(vhist, m_viable)
    /\ UNCHANGED num_bits

\* viable::add_non_viable(v, val)
AddNonViable(v, val) ==
    /\ \E S \in {set_ne(m_viable[v], val)} :
           /\ s_trail' = s_trail + 1
           /\ m_viable_trail' = push_viable(m_viable_trail, m_viable, v)
           /\ m_viable' = [m_viable EXCEPT ![v] = S]
           /\ vlast' = [op |-> "ne", v |-> v, before |-> m_viable, expect |-> m_viable,
                        sat |-> Values(num_bits) \ {val},
                        conflict |-> set_conflict(S, v), budget |-> Budget]
    /\ vhist' = Append(vhist, m_viable)
    /\ UNCHANGED <<num_bits, m_ineq_cache>>

\* viable::find_viable(v, val), hint the value s.m_value[v]
FindViable(v, hint) ==
    /\ vlast' = [op |-> "find", v |-> v, before |-> m_viable, expect |-> m_viable,
                 sat |-> {}, conflict |-> <<>>, budget |-> Budget,
                 hint |-> hint, found |-> find_hint(m_viable[v], hint)]
    /\ UNCHANGED <<num_bits, m_viable, m_viable_trail, s_trail, m_ineq_cache, vhist>>

\* the solver undoes a viable_i entry of its trail: viable::pop_viable()
PopViable ==
    /\ Len(m_viable_trail) > 0
    /\ \E r \in {pop_viable(m_viable_trail, m_viable)} :
           /\ m_viable' = r.viable
           /\ m_viable_trail' = r.trail
    /\ vlast' = [op |-> "pop", v |-> m_viable_trail[Len(m_viable_trail)][1],
                 before |-> m_viable, expect |-> vhist[Len(vhist)],
                 sat |-> {}, conflict |-> <<>>, budget |-> Budget]
    /\ s_trail' = s_trail - 1
    /\ vhist' = SubSeq(vhist, 1, Len(vhist) - 1)
    /\ UNCHANGED <<num_bits, m_ineq_cache>>

\* ------------------------------------------------------------------------
\* linear_solver: state
\* ------------------------------------------------------------------------

VARIABLES
    m_trail,          \* linear_solver::m_trail: sequence of trail_i
    m_rows,           \* linear_solver::m_rows: sequence of <<var, sz>>
    m_sz2num_vars,    \* width -> number of internal variables of that width
    m_mono2var,       \* the interning table: set of mono_info [sz, vars, var]
    m_monomials,      \* sequence of mono_info, in order of creation
    m_fix,            \* width -> engine (alloc = FALSE: nullptr)
    m_bool_var2row,   \* sequence of <<v, w>>, indexed by bvar + 1
    constraints,      \* the solver's constraints: bvar -> constraint (NoCon: none)
    lstatus,          \* "ok", or "abort" once NOT_IMPLEMENTED_YET has ended the process
    llast,            \* the last router call and what it did (observer)
    snaps,            \* the state right after each push() still open (observer)
    pending           \* the engine mutations made and not yet undone (observer)

lvars == <<m_trail, m_rows, m_sz2num_vars, m_mono2var, m_monomials, m_fix,
           m_bool_var2row, constraints, lstatus, llast, snaps, pending>>

\* the widths of the problem variables 0, 1, 2, ...: s.size(v)
LWidthSeq == <<32, 64, 128, 256, 8>>

LPVars == 0 .. (Len(LWidthSeq) - 1)

size(v) == LWidthSeq[v + 1]

LWidths == {LWidthSeq[i] : i \in 1 .. Len(LWidthSeq)}

BVars == 0 .. (NumBVars - 1)

\* a number of the range of a width sz, or just above it: off, or 2^sz + off
\* (2^32, 2^64 and 2^256 are written relative to the top of the range)
Num(off) == [top |-> FALSE, off |-> off]

TopNum(off) == [top |-> TRUE, off |-> off]

\* rational::power_of_two(sz) - 1
MaxVal == TopNum(-1)

NumAdd(x, k) == [x EXCEPT !.off = x.off + k]

NoEngine == [alloc |-> FALSE, rows |-> <<>>, bounds |-> <<>>, ineqs |-> <<>>]

NoCon == [kind |-> "none"]

\* a fixplex just constructed: no row, no bound set, no inequality
NewEngine == [alloc |-> TRUE, rows |-> <<>>, bounds |-> <<>>, ineqs |-> <<>>]

\* the router state an operation works on
LState ==
    [trail |-> m_trail, rows |-> m_rows, nv |-> m_sz2num_vars,
     m2v |-> m_mono2var, monos |-> m_monomials, fix |-> m_fix,
     b2r |-> m_bool_var2row, status |-> "ok", calls |-> <<>>]

Running(L) == L.status = "ok"

\* ------------------------------------------------------------------------
\* fixplex_base: the engine of one width, as the stacks its undo calls pop
\* ------------------------------------------------------------------------

Front(q) == SubSeq(q, 1, Len(q) - 1)

Call(L, c) == [L EXCEPT !.calls = Append(@, c)]

fp_add_row(L, sz, v, vars, coeffs) ==
    Call([L EXCEPT !.fix[sz].rows = Append(@, <<v, vars, coeffs>>)],
         <<"add_row", sz, v>>)

fp_del_row(L, sz, v) ==
    Call([L EXCEPT !.fix[sz].rows = Front(@)], <<"del_row", sz, v>>)

fp_set_bounds(L, sz, v, lo, hi) ==
    Call([L EXCEPT !.fix[sz].bounds = Append(@, <<v, lo, hi>>)],
         <<"set_bounds", sz, v, lo, hi>>)

fp_set_value(L, sz, v, val) ==
    Call([L EXCEPT !.fix[sz].bounds = Append(@, <<v, val, NumAdd(val, 1)>>)],
         <<"set_value", sz, v, val>>)

fp_restore_bound(L, sz) ==
    Call([L EXCEPT !.fix[sz].bounds = Front(@)], <<"restore_bound", sz>>)

fp_add_le(L, sz, v, w) ==
    Call([L EXCEPT !.fix[sz].ineqs = Append(@, <<"le", v, w>>)],
         <<"add_le", sz, v, w>>)

fp_add_lt(L, sz, v, w) ==
    Call([L EXCEPT !.fix[sz].ineqs = Append(@, <<"lt", v, w>>)],
         <<"add_lt", sz, v, w>>)

fp_restore_ineq(L, sz) ==
    Call([L EXCEPT !.fix[sz].ineqs = Front(@)], <<"restore_ineq", sz>>)

\* ------------------------------------------------------------------------
\* linear_solver
\* ------------------------------------------------------------------------

\* linear_solver::push()
push(L) == [L EXCEPT !.trail = Append(@, "inc_level_i")]

\* linear_solver::sz2fixplex(sz): the engine of width sz, constructed on
\* first use; NOT_IMPLEMENTED_YET() for 128 and for every other width
sz2fixplex(L, sz) ==
    IF ~Running(L) THEN L
    ELSE IF L.fix[sz].alloc THEN L
    ELSE IF sz = 32 \/ sz = 64 \/ sz = 256 THEN [L EXCEPT !.fix[sz] = NewEngine]
    ELSE [L EXCEPT !.status = "abort"]

\* pop(n) that leaves the counter of the width as it is at add_var_i
RECURSIVE pop_keep_counter(_, _)
pop_keep_counter(L, n) ==
    IF n = 0 THEN L
    ELSE LET back == L.trail[Len(L.trail)]
             row  == L.rows[Len(L.rows)]
             v    == row[1]
             sz   == row[2]
             L1   ==
                 CASE back = "inc_level_i" -> L
                   [] back = "add_var_i" -> [L EXCEPT !.rows = Front(@)]
                   [] back = "add_mono_i" ->
                        LET m == L.monos[Len(L.monos)]
                        IN  [L EXCEPT
                                !.m2v = {e \in @ : ~(e.sz = m.sz /\ e.vars = m.vars)},
                                !.monos = Front(@)]
                   [] back = "set_bound_i" ->
                        [fp_restore_bound(sz2fixplex(L, sz), sz) EXCEPT !.rows = Front(@)]
                   [] back = "add_row_i" ->
                        [fp_del_row(sz2fixplex(L, sz), sz, v) EXCEPT !.rows = Front(@)]
                   [] back = "add_ineq_i" ->
                        [fp_restore_ineq(sz2fixplex(L, sz), sz) EXCEPT !.rows = Front(@)]
         IN  pop_keep_counter([L1 EXCEPT !.trail = Front(@)],
                              IF back = "inc_level_i" THEN n - 1 ELSE n)

\* linear_solver::pop(n)
RECURSIVE pop(_, _)
pop(L, n) ==
    IF n = 0 THEN L
    ELSE LET back == L.trail[Len(L.trail)]
             row  == L.rows[Len(L.rows)]
             v    == row[1]
             sz   == row[2]
             L1   ==
                 CASE back = "inc_level_i" -> L
                   [] back = "add_var_i" ->
                        [L EXCEPT !.nv[sz] = @ - 1, !.rows = Front(@)]
                   [] back = "add_mono_i" ->
                        LET m == L.monos[Len(L.monos)]
                        IN  [L EXCEPT
                                !.m2v = {e \in @ : ~(e.sz = m.sz /\ e.vars = m.vars)},
                                !.monos = Front(@)]
                   [] back = "set_bound_i" ->
                        [fp_restore_bound(sz2fixplex(L, sz), sz) EXCEPT !.rows = Front(@)]
                   [] back = "add_row_i" ->
                        [fp_del_row(sz2fixplex(L, sz), sz, v) EXCEPT !.rows = Front(@)]
                   [] back = "add_ineq_i" ->
                        [fp_restore_ineq(sz2fixplex(L, sz), sz) EXCEPT !.rows = Front(@)]
         IN  pop([L1 EXCEPT !.trail = Front(@)],
                 IF back = "inc_level_i" THEN n - 1 ELSE n)

\* fresh_var that pushes no m_rows record with its add_var_i entry
fresh_var_no_row(L, sz) ==
    [L   |-> [L EXCEPT !.trail = Append(@, "add_var_i"),
                       !.nv[sz] = @ + 1],
     ret |-> L.nv[sz]]

\* linear_solver::fresh_var(sz)
fresh_var(L, sz) ==
    [L   |-> [L EXCEPT !.trail = Append(@, "add_var_i"),
                       !.rows = Append(@, <<0, sz>>),
                       !.nv[sz] = @ + 1],
     ret |-> L.nv[sz]]

\* m_mono2var.find(m, m1)
mono_find(L, sz, var) == {e \in L.m2v : e.sz = sz /\ e.vars = var}

\* mono2var that allocates without looking the monomial up
mono2var_no_find(L, sz, var) ==
    LET f == fresh_var(L, sz)
        m == [sz |-> sz, vars |-> var, var |-> f.ret]
    IN  [L   |-> [f.L EXCEPT !.m2v = @ \cup {m},
                             !.monos = Append(@, m),
                             !.trail = Append(@, "add_mono_i")],
         ret |-> f.ret]

\* linear_solver::mono2var(sz, var)
mono2var(L, sz, var) ==
    IF mono_find(L, sz, var) # {}
    THEN [L |-> L, ret |-> (CHOOSE e \in mono_find(L, sz, var) : TRUE).var]
    ELSE LET f == fresh_var(L, sz)
             m == [sz |-> sz, vars |-> var, var |-> f.ret]
         IN  [L   |-> [f.L EXCEPT !.m2v = @ \cup {m},
                                  !.monos = Append(@, m),
                                  !.trail = Append(@, "add_mono_i")],
              ret |-> f.ret]

\* linear_solver::pvar2var(sz, v)
pvar2var(L, sz, v) == mono2var(L, sz, <<v>>)

\* linear_solver::linearize(p): m_vars and m_coeffs of the monomials of p
RECURSIVE linearize_from(_, _, _, _, _)
linearize_from(L, p, i, vars, coeffs) ==
    IF i > Len(p.monos) THEN [L |-> L, m_vars |-> vars, m_coeffs |-> coeffs]
    ELSE LET r == mono2var(L, p.sz, p.monos[i].vars)
         IN  linearize_from(r.L, p, i + 1, Append(vars, r.ret),
                            Append(coeffs, p.monos[i].coeff))

linearize(L, p) == linearize_from(L, p, 1, <<>>, <<>>)

\* linear_solver::internalize_pdd(p)
internalize_pdd(L, p) ==
    LET sz == p.sz
        l  == linearize(L, p)
    IN  IF Len(l.m_vars) = 1 /\ l.m_coeffs[Len(l.m_coeffs)] = Num(1)
        THEN [L |-> l.L, ret |-> l.m_vars[Len(l.m_vars)]]
        ELSE LET f  == fresh_var(l.L, sz)
                 vs == Append(l.m_vars, f.ret)
                 cs == Append(l.m_coeffs, MaxVal)
                 L1 == sz2fixplex(f.L, sz)
             IN  IF ~Running(L1) THEN [L |-> L1, ret |-> f.ret]
                 ELSE [L   |-> [fp_add_row(L1, sz, f.ret, vs, cs) EXCEPT
                                   !.rows = Append(@, <<f.ret, sz>>),
                                   !.trail = Append(@, "add_row_i")],
                       ret |-> f.ret]

\* m_bool_var2row.setx(bvar, pr, pr): the vector grows to bvar + 1 entries,
\* new entries below bvar are filled with pr
setx(q, idx, pr) ==
    [i \in 1 .. (IF idx + 1 > Len(q) THEN idx + 1 ELSE Len(q)) |->
        IF i = idx + 1 THEN pr ELSE IF i <= Len(q) THEN q[i] ELSE pr]

\* linear_solver::new_eq(c)
new_eq(L, c) ==
    LET r == internalize_pdd(L, c.p)
    IN  IF ~Running(r.L) THEN r.L
        ELSE [r.L EXCEPT !.b2r = setx(@, c.bvar, <<r.ret, r.ret>>)]

\* linear_solver::new_le(c)
new_le(L, c) ==
    LET r1 == internalize_pdd(L, c.lhs)
        r2 == internalize_pdd(r1.L, c.rhs)
    IN  IF ~Running(r1.L) THEN r1.L
        ELSE IF ~Running(r2.L) THEN r2.L
        ELSE [r2.L EXCEPT !.b2r = setx(@, c.bvar, <<r1.ret, r2.ret>>)]

\* linear_solver::assert_eq(c), c asserted with polarity is_positive
assert_eq(L, c, is_positive) ==
    LET v  == L.b2r[c.bvar + 1][1]
        sz == c.p.sz
        L1 == sz2fixplex(L, sz)
        L2 == [L1 EXCEPT !.trail = Append(@, "set_bound_i"),
                         !.rows = Append(@, <<v, sz>>)]
    IN  IF ~Running(L1) THEN L1
        ELSE IF is_positive THEN fp_set_bounds(L2, sz, v, Num(0), Num(0))
        ELSE fp_set_bounds(L2, sz, v, Num(1), Num(0))

\* pdd::pdd_is_val() and pdd::val()
pdd_is_val(p) == Len(p.monos) = 0 \/ (Len(p.monos) = 1 /\ p.monos[1].vars = <<>>)

pdd_val(p) == IF Len(p.monos) = 0 THEN Num(0) ELSE p.monos[1].coeff

\* assert_le that records an inequality edge as a bound
assert_le_as_bound(L, c, is_positive) ==
    LET v  == L.b2r[c.bvar + 1][1]
        w  == L.b2r[c.bvar + 1][2]
        sz == c.lhs.sz
        L1 == sz2fixplex(L, sz)
        bound(L2, x) == [L2 EXCEPT !.trail = Append(@, "set_bound_i"),
                                   !.rows = Append(@, <<x, sz>>)]
    IN  IF ~Running(L1) THEN L1
        ELSE IF pdd_is_val(c.rhs) THEN
            IF is_positive
            THEN bound(fp_set_bounds(L1, sz, v, Num(0), pdd_val(c.rhs)), v)
            ELSE bound(fp_set_bounds(L1, sz, v, NumAdd(pdd_val(c.rhs), 1), Num(0)), v)
        ELSE IF pdd_is_val(c.lhs) THEN
            IF is_positive
            THEN bound(fp_set_bounds(L1, sz, w, pdd_val(c.lhs), Num(0)), w)
            ELSE IF pdd_val(c.lhs) = Num(0) THEN [L1 EXCEPT !.status = "throw"]
            ELSE bound(fp_set_bounds(L1, sz, w, Num(0), NumAdd(pdd_val(c.lhs), -1)), w)
        ELSE bound(IF is_positive THEN fp_add_le(L1, sz, v, w) ELSE fp_add_lt(L1, sz, w, v), v)

\* linear_solver::assert_le(c), c asserted with polarity is_positive
assert_le(L, c, is_positive) ==
    LET v  == L.b2r[c.bvar + 1][1]
        w  == L.b2r[c.bvar + 1][2]
        sz == c.lhs.sz
        L1 == sz2fixplex(L, sz)
        is_max_value == FALSE
        bound(L2, x) == [L2 EXCEPT !.trail = Append(@, "set_bound_i"),
                                   !.rows = Append(@, <<x, sz>>)]
    IN  IF ~Running(L1) THEN L1
        ELSE IF pdd_is_val(c.rhs) THEN
            IF is_positive
            THEN bound(fp_set_bounds(L1, sz, v, Num(0), pdd_val(c.rhs)), v)
            ELSE IF is_max_value THEN [L1 EXCEPT !.status = "throw"]
            ELSE bound(fp_set_bounds(L1, sz, v, NumAdd(pdd_val(c.rhs), 1), Num(0)), v)
        ELSE IF pdd_is_val(c.lhs) THEN
            IF is_positive
            THEN bound(fp_set_bounds(L1, sz, w, pdd_val(c.lhs), Num(0)), w)
            ELSE IF pdd_val(c.lhs) = Num(0) THEN [L1 EXCEPT !.status = "throw"]
            ELSE bound(fp_set_bounds(L1, sz, w, Num(0), NumAdd(pdd_val(c.lhs), -1)), w)
        ELSE [(IF is_positive THEN fp_add_le(L1, sz, v, w) ELSE fp_add_lt(L1, sz, w, v))
                 EXCEPT !.trail = Append(@, "add_ineq_i"),
                        !.rows = Append(@, <<v, sz>>)]

\* linear_solver::set_value(v, value)
set_value(L, v, value) ==
    LET sz == size(v)
        L1 == sz2fixplex(L, sz)
        r  == pvar2var(L1, sz, v)
    IN  IF ~Running(L1) THEN L1
        ELSE fp_set_value([r.L EXCEPT !.trail = Append(@, "set_bound_i"),
                                      !.rows = Append(@, <<r.ret, sz>>)],
                          sz, r.ret, value)

\* linear_solver::set_bound(v, lo, hi)
set_bound(L, v, lo, hi) ==
    LET sz == size(v)
        L1 == sz2fixplex(L, sz)
        r  == pvar2var(L1, sz, v)
    IN  IF ~Running(L1) THEN L1
        ELSE fp_set_bounds([r.L EXCEPT !.trail = Append(@, "set_bound_i"),
                                       !.rows = Append(@, <<r.ret, sz>>)],
                           sz, r.ret, lo, hi)

\* ------------------------------------------------------------------------
\* linear_solver: the calls of the solver
\* ------------------------------------------------------------------------

\* number of inc_level_i entries: the push depth
RECURSIVE Count(_, _)
Count(q, x) ==
    IF q = <<>> THEN 0
    ELSE (IF q[Len(q)] = x THEN 1 ELSE 0) + Count(Front(q), x)

Depth(trail) == Count(trail, "inc_level_i")

\* the polynomials of the problem variable v: x, 2*x, x*x + x and constants
Mono(coeff, vars) == [coeff |-> coeff, vars |-> vars]

PolyX(v) == [sz |-> size(v), monos |-> <<Mono(Num(1), <<v>>)>>]

Poly2X(v) == [sz |-> size(v), monos |-> <<Mono(Num(2), <<v>>)>>]

PolyXX(v) == [sz |-> size(v), monos |-> <<Mono(Num(1), <<v, v>>), Mono(Num(1), <<v>>)>>]

PolyVal(v, k) == [sz |-> size(v), monos |-> IF k = Num(0) THEN <<>> ELSE <<Mono(k, <<>>)>>]

EqPolys(v) == {PolyX(v), Poly2X(v)}

\* v <= k, k <= v and v <= v*v + v
LePairs(v) ==
    {<<PolyX(v), PolyVal(v, k)>> : k \in {Num(5), MaxVal}} \cup
    {<<PolyVal(v, k), PolyX(v)>> : k \in {Num(0), Num(5)}} \cup
    {<<PolyX(v), PolyXX(v)>>}

\* v <= 1, v <= 5 and v <= 2^w - 1, 0 <= v and 5 <= v, v <= 2*v
RouterPairs(v) ==
    {<<PolyX(v), PolyVal(v, Num(1))>>, <<PolyX(v), PolyVal(v, Num(5))>>,
     <<PolyX(v), PolyVal(v, MaxVal)>>, <<PolyVal(v, Num(0)), PolyX(v)>>,
     <<PolyVal(v, Num(5)), PolyX(v)>>, <<PolyX(v), Poly2X(v)>>}

\* the engine mutations among the calls of an operation, as <<undo, sz>>
Undo(c) ==
    CASE c[1] = "add_row" -> <<"del_row", c[2]>>
      [] c[1] \in {"set_bounds", "set_value"} -> <<"restore_bound", c[2]>>
      [] c[1] \in {"add_le", "add_lt"} -> <<"restore_ineq", c[2]>>
      [] OTHER -> <<"none", c[2]>>

IsMutation(c) == c[1] \in {"add_row", "set_bounds", "set_value", "add_le", "add_lt"}

RECURSIVE Mutations(_)
Mutations(calls) ==
    IF calls = <<>> THEN <<>>
    ELSE LET c == calls[Len(calls)]
         IN  IF IsMutation(c) THEN Append(Mutations(Front(calls)), Undo(c))
             ELSE Mutations(Front(calls))

RECURSIVE Reverse(_)
Reverse(q) == IF q = <<>> THEN <<>> ELSE <<q[Len(q)]>> \o Reverse(Front(q))

\* the undo calls among the calls of an operation, as <<undo, sz>>
Undos(calls) ==
    [i \in 1 .. Len(calls) |-> <<calls[i][1], calls[i][2]>>]

\* what push() must bring back
Snapshot(L, pend) ==
    [trail |-> L.trail, rows |-> L.rows, nv |-> L.nv, m2v |-> L.m2v,
     monos |-> L.monos, fix |-> L.fix, pending |-> Len(pend)]

NoSnap == "none"

LInit ==
    /\ m_trail = <<>>
    /\ m_rows = <<>>
    /\ m_sz2num_vars = [sz \in LWidths |-> 0]
    /\ m_mono2var = {}
    /\ m_monomials = <<>>
    /\ m_fix = [sz \in LWidths |-> NoEngine]
    /\ m_bool_var2row = <<>>
    /\ constraints = [b \in BVars |-> NoCon]
    /\ lstatus = "ok"
    /\ llast = [op |-> "init", args |-> <<>>, ret |-> 0, before |-> NoSnap,
                calls |-> <<>>, outcome |-> "ok", snap |-> NoSnap, expected |-> <<>>]
    /\ snaps = <<>>
    /\ pending = <<>>

\* the router state after an operation that returned L, and the observers
Commit(op, args, ret, L) ==
    /\ m_trail' = L.trail
    /\ m_rows' = L.rows
    /\ m_sz2num_vars' = L.nv
    /\ m_mono2var' = L.m2v
    /\ m_monomials' = L.monos
    /\ m_fix' = L.fix
    /\ m_bool_var2row' = L.b2r
    /\ lstatus' = IF L.status = "abort" THEN "abort" ELSE "ok"
    /\ llast' = [op |-> op, args |-> args, ret |-> ret,
                 before |-> Snapshot(LState, pending),
                 calls |-> L.calls, outcome |-> L.status,
                 snap |-> NoSnap, expected |-> <<>>]
    /\ pending' = pending \o Mutations(L.calls)

\* linear_solver::push()
Push ==
    /\ lstatus = "ok"
    /\ \E L \in {push(LState)} :
           /\ Commit("push", <<>>, 0, L)
           /\ snaps' = Append(snaps, Snapshot(L, pending))
    /\ UNCHANGED constraints

\* linear_solver::pop(n), n at most the push depth
Pop(n) ==
    /\ lstatus = "ok"
    /\ n <= Depth(m_trail)
    /\ \E L \in {pop(LState, n)} :
           /\ m_trail' = L.trail
           /\ m_rows' = L.rows
           /\ m_sz2num_vars' = L.nv
           /\ m_mono2var' = L.m2v
           /\ m_monomials' = L.monos
           /\ m_fix' = L.fix
           /\ m_bool_var2row' = L.b2r
           /\ lstatus' = "ok"
           /\ LET snap == snaps[Len(snaps) - n + 1]
              IN  /\ llast' = [op |-> "pop", args |-> <<n>>, ret |-> 0,
                               before |-> Snapshot(LState, pending),
                               calls |-> L.calls, outcome |-> L.status,
                               snap |-> snap,
                               expected |-> Reverse(SubSeq(pending, snap.pending + 1,
                                                           Len(pending)))]
                  /\ pending' = SubSeq(pending, 1, snap.pending)
           /\ snaps' = SubSeq(snaps, 1, Len(snaps) - n)
    /\ UNCHANGED constraints

\* linear_solver::fresh_var(sz)
FreshVar(sz) ==
    /\ lstatus = "ok"
    /\ \E r \in {fresh_var(LState, sz)} :
           Commit("fresh_var", <<sz>>, r.ret, r.L)
    /\ UNCHANGED <<constraints, snaps>>

\* linear_solver::mono2var(sz, var)
Mono2Var(sz, var) ==
    /\ lstatus = "ok"
    /\ \E r \in {mono2var(LState, sz, var)} :
           Commit("mono2var", <<sz, var>>, r.ret, r.L)
    /\ UNCHANGED <<constraints, snaps>>

\* linear_solver::pvar2var(sz, v)
PVar2Var(v) ==
    /\ lstatus = "ok"
    /\ \E r \in {pvar2var(LState, size(v), v)} :
           Commit("pvar2var", <<size(v), v>>, r.ret, r.L)
    /\ UNCHANGED <<constraints, snaps>>

\* the solver creates the equality p = 0 under bvar: linear_solver::new_eq(c)
NewEq(bvar, p) ==
    /\ lstatus = "ok"
    /\ constraints[bvar].kind = "none"
    /\ \E c \in {[kind |-> "eq_t", bvar |-> bvar, p |-> p]} :
           /\ \E L \in {new_eq(LState, c)} :
                  Commit("new_eq", <<bvar, p.sz>>, 0, L)
           /\ constraints' = [constraints EXCEPT ![bvar] = c]
    /\ UNCHANGED snaps

\* the solver creates lhs <= rhs under bvar: linear_solver::new_le(c)
NewLe(bvar, lhs, rhs) ==
    /\ lstatus = "ok"
    /\ constraints[bvar].kind = "none"
    /\ \E c \in {[kind |-> "ule_t", bvar |-> bvar, lhs |-> lhs, rhs |-> rhs]} :
           /\ \E L \in {new_le(LState, c)} :
                  Commit("new_le", <<bvar, lhs.sz>>, 0, L)
           /\ constraints' = [constraints EXCEPT ![bvar] = c]
    /\ UNCHANGED snaps

\* linear_solver::assert_eq(c) of a registered equality
AssertEq(bvar, is_positive) ==
    /\ lstatus = "ok"
    /\ constraints[bvar].kind = "eq_t"
    /\ \E L \in {assert_eq(LState, constraints[bvar], is_positive)} :
           Commit("assert_eq", <<bvar, constraints[bvar].p.sz, is_positive>>, 0, L)
    /\ UNCHANGED <<constraints, snaps>>

\* linear_solver::assert_le(c) of a registered ordering constraint
AssertLe(bvar, is_positive) ==
    /\ lstatus = "ok"
    /\ constraints[bvar].kind = "ule_t"
    /\ \E L \in {assert_le(LState, constraints[bvar], is_positive)} :
           Commit("assert_le", <<bvar, constraints[bvar].lhs.sz, is_positive>>, 0, L)
    /\ UNCHANGED <<constraints, snaps>>

\* linear_solver::set_value(v, value)
SetValue(v, value) ==
    /\ lstatus = "ok"
    /\ \E L \in {set_value(LState, v, value)} :
           Commit("set_value", <<v, size(v)>>, 0, L)
    /\ UNCHANGED <<constraints, snaps>>

\* linear_solver::set_bound(v, lo, hi)
SetBound(v, lo, hi) ==
    /\ lstatus = "ok"
    /\ \E L \in {set_bound(LState, v, lo, hi)} :
           Commit("set_bound", <<v, size(v)>>, 0, L)
    /\ UNCHANGED <<constraints, snaps>>

\* linear_solver::check(): the engines are visited in the order of m_fix
\* (by width); results[sz] is what make_feasible() of the engine of width sz
\* reports when it is called
RECURSIVE check_from(_, _, _, _)
check_from(order, results, res, consulted) ==
    IF order = <<>> THEN [ret |-> res, consulted |-> consulted]
    ELSE LET sz == Head(order)
         IN  IF results[sz] = "l_false"
             THEN [ret |-> "l_false", consulted |-> Append(consulted, sz)]
             ELSE check_from(Tail(order), results,
                             IF results[sz] = "l_undef" THEN "l_undef" ELSE res,
                             Append(consulted, sz))

\* the widths of a set, in increasing order
RECURSIVE SortedSeq(_)
SortedSeq(S) ==
    IF S = {} THEN <<>>
    ELSE LET m == CHOOSE x \in S : \A y \in S : x <= y
         IN  <<m>> \o SortedSeq(S \ {m})

\* the non-null entries of m_fix, in index order
Engines(fix) == SortedSeq({sz \in DOMAIN fix : fix[sz].alloc})

\* check() that starts from l_undef
check_from_undef(L, results) == check_from(Engines(L.fix), results, "l_undef", <<>>)

\* linear_solver::check()
check(L, results) == check_from(Engines(L.fix), results, "l_true", <<>>)

lbool == {"l_true", "l_false", "l_undef"}

Check(results) ==
    /\ lstatus = "ok"
    /\ \E r \in {check(LState, results)} :
           Commit("check", <<results>>, r, LState)
    /\ UNCHANGED <<constraints, snaps>>

\* Backtracking runs: the calls are made on the 32-bit variable 0 and, for
\* set_value and part of the equalities, on the 64-bit variable 1
LPush ==
    /\ Push
    /\ Len(m_trail') <= MaxLTrail
    /\ UNCHANGED vvars

LPop ==
    /\ \E n \in 1 .. MaxLTrail : Pop(n)
    /\ Len(m_trail') <= MaxLTrail
    /\ UNCHANGED vvars

LFreshVar ==
    /\ FreshVar(size(0))
    /\ Len(m_trail') <= MaxLTrail
    /\ UNCHANGED vvars

LMono2Var ==
    /\ Mono2Var(size(0), <<0, 0>>)
    /\ Len(m_trail') <= MaxLTrail
    /\ UNCHANGED vvars

LPVar2Var ==
    /\ PVar2Var(0)
    /\ Len(m_trail') <= MaxLTrail
    /\ UNCHANGED vvars

LNewEq ==
    /\ \E b \in BVars : \E p \in EqPolys(0) \cup EqPolys(1) : NewEq(b, p)
    /\ Len(m_trail') <= MaxLTrail
    /\ UNCHANGED vvars

LNewLe ==
    /\ \E b \in BVars : \E pr \in LePairs(0) : NewLe(b, pr[1], pr[2])
    /\ Len(m_trail') <= MaxLTrail
    /\ UNCHANGED vvars

LAssertEq ==
    /\ \E b \in BVars : \E pos \in BOOLEAN : AssertEq(b, pos)
    /\ Len(m_trail') <= MaxLTrail
    /\ UNCHANGED vvars

LAssertLe ==
    /\ \E b \in BVars : \E pos \in BOOLEAN : AssertLe(b, pos)
    /\ Len(m_trail') <= MaxLTrail
    /\ UNCHANGED vvars

LSetValue ==
    /\ SetValue(1, Num(5))
    /\ Len(m_trail') <= MaxLTrail
    /\ UNCHANGED vvars

LSetBound ==
    /\ SetBound(0, Num(0), Num(5))
    /\ Len(m_trail') <= MaxLTrail
    /\ UNCHANGED vvars

LNext ==
    \/ LPush \/ LPop \/ LFreshVar \/ LMono2Var \/ LPVar2Var
    \/ LNewEq \/ LNewLe \/ LAssertEq \/ LAssertLe \/ LSetValue \/ LSetBound

\* the viable tracker is idle while the linear solver runs
VIdle ==
    /\ num_bits = 1
    /\ m_viable = [v \in PVars |-> free(num_bits)]
    /\ m_viable_trail = <<>>
    /\ s_trail = 0
    /\ m_ineq_cache = EmptyCache
    /\ vlast = [op |-> "init", v |-> 0, before |-> m_viable, expect |-> m_viable,
                sat |-> {}, conflict |-> <<>>, budget |-> Budget]
    /\ vhist = <<>>

vars == <<vvars, lvars>>

\* the linear solver as constructed, next to an idle viable tracker
LinearInit == LInit /\ VIdle

SpecLinear == LinearInit /\ [][LNext]_vars

\* Router runs: registration, activation, set_value, set_bound and check on
\* the variables of every width, without backtracking
RNewEq ==
    /\ \E b \in BVars : \E v \in LPVars : \E p \in EqPolys(v) : NewEq(b, p)
    /\ Len(m_trail') <= MaxRTrail
    /\ UNCHANGED vvars

RNewLe ==
    /\ \E b \in BVars : \E v \in LPVars : \E pr \in RouterPairs(v) : NewLe(b, pr[1], pr[2])
    /\ Len(m_trail') <= MaxRTrail
    /\ UNCHANGED vvars

RAssertEq ==
    /\ \E b \in BVars : \E pos \in BOOLEAN : AssertEq(b, pos)
    /\ Len(m_trail') <= MaxRTrail
    /\ UNCHANGED vvars

RAssertLe ==
    /\ \E b \in BVars : \E pos \in BOOLEAN : AssertLe(b, pos)
    /\ Len(m_trail') <= MaxRTrail
    /\ UNCHANGED vvars

RSetValue ==
    /\ \E v \in LPVars : SetValue(v, Num(5))
    /\ Len(m_trail') <= MaxRTrail
    /\ UNCHANGED vvars

RSetBound ==
    /\ \E v \in LPVars : SetBound(v, Num(0), Num(5))
    /\ Len(m_trail') <= MaxRTrail
    /\ UNCHANGED vvars

RCheck ==
    /\ \E results \in [{sz \in LWidths : m_fix[sz].alloc} -> lbool] : Check(results)
    /\ Len(m_trail') <= MaxRTrail
    /\ UNCHANGED vvars

RNext ==
    \/ RNewEq \/ RNewLe \/ RAssertEq \/ RAssertLe \/ RSetValue \/ RSetBound \/ RCheck

SpecRouter == LinearInit /\ [][RNext]_vars

\* ------------------------------------------------------------------------
\* viable: the calls of the solver
\* ------------------------------------------------------------------------

\* the viable tracker as constructed, next to an idle linear solver
ViableInit == VInit /\ LInit

\* the trail has room for one more call
Room == Len(m_viable_trail) < MaxViableTrail

\* Narrowing calls on the first problem variable, with every coefficient
\* tuple up to MaxCoeff, and no backtracking
NEq ==
    /\ Room
    /\ \E a, b \in Coeffs(num_bits) : \E p \in BOOLEAN : IntersectEq(0, a, b, p)
    /\ UNCHANGED lvars

NUle ==
    /\ Room
    /\ \E a, b, c, d \in Coeffs(num_bits) : \E p \in BOOLEAN :
           IntersectUle(0, a, b, c, d, p)
    /\ CacheOk(m_ineq_cache', MaxCache)
    /\ UNCHANGED lvars

NNe ==
    /\ Room
    /\ \E val \in Values(num_bits) : AddNonViable(0, val)
    /\ UNCHANGED lvars

NNext == NEq \/ NUle \/ NNe

SpecNarrow == ViableInit /\ [][NNext]_vars

\* Narrowing calls and queries on the first problem variable
QFind ==
    /\ \E hint \in Coeffs(num_bits) : FindViable(0, hint)
    /\ UNCHANGED lvars

QNext == NEq \/ NUle \/ NNe \/ QFind

SpecQuery == ViableInit /\ [][QNext]_vars

\* Calls on every problem variable with coefficients up to MaxSmall, and
\* backtracking
VEq ==
    /\ Room
    /\ \E v \in PVars : \E a, b \in SmallCoeffs(num_bits) : \E p \in BOOLEAN :
           IntersectEq(v, a, b, p)
    /\ UNCHANGED lvars

VUle ==
    /\ Room
    /\ \E v \in PVars : \E a, b, c, d \in SmallCoeffs(num_bits) : \E p \in BOOLEAN :
           IntersectUle(v, a, b, c, d, p)
    /\ CacheOk(m_ineq_cache', MaxCache)
    /\ UNCHANGED lvars

VNe ==
    /\ Room
    /\ \E v \in PVars : \E val \in SmallCoeffs(num_bits) : AddNonViable(v, val)
    /\ UNCHANGED lvars

VPop == PopViable /\ UNCHANGED lvars

VNext == VEq \/ VUle \/ VNe \/ VPop

SpecViable == ViableInit /\ [][VNext]_vars

\* Orderings with the variable on both sides, on every problem variable,
\* with up to MaxKeys cache entries, and backtracking
CUle ==
    /\ Room
    /\ \E v \in PVars : \E b, d \in SmallCoeffs(num_bits) : \E p \in BOOLEAN :
           IntersectUle(v, 1, b, 1, d, p)
    /\ CacheOk(m_ineq_cache', MaxKeys)
    /\ UNCHANGED lvars

CNext == CUle \/ VPop

SpecCache == ViableInit /\ [][CNext]_vars

\* Point constraints with every constant of the width: v = k, v <= h, l <= v
\* and v # k on every problem variable, and backtracking
PEq ==
    /\ Room
    /\ \E v \in PVars : \E k \in Values(num_bits) :
           IntersectEq(v, 1, (Pow2(num_bits) - k) % Pow2(num_bits), TRUE)
    /\ UNCHANGED lvars

PUle ==
    /\ Room
    /\ \E v \in PVars : \E k \in Values(num_bits) :
           \/ IntersectUle(v, 1, 0, 0, k, TRUE)
           \/ IntersectUle(v, 0, k, 1, 0, TRUE)
    /\ CacheOk(m_ineq_cache', MaxCache)
    /\ UNCHANGED lvars

PNe ==
    /\ Room
    /\ \E v \in PVars : \E k \in Values(num_bits) : AddNonViable(v, k)
    /\ UNCHANGED lvars

PNext == PEq \/ PUle \/ PNe \/ VPop

SpecPoint == ViableInit /\ [][PNext]_vars

\* ------------------------------------------------------------------------
\* Properties of the viable tracker
\* ------------------------------------------------------------------------

Mutators == {"eq", "ule", "ne"}

\* viable::is_viable(v, val)
is_viable(v, val) == contains(m_viable[v], val)

\* {x : is_viable(v, x)} now, and before the last call
ViableNow(v) == {x \in Values(num_bits) : is_viable(v, x)}

ViableBefore(v) == {x \in Values(num_bits) : contains(vlast.before[v], x)}

\* C1: after intersect_eq or intersect_ule returns, every viable value of v
\* satisfies the asserted constraint
C1_Soundness ==
    vlast.op \in {"eq", "ule"} => ViableNow(vlast.v) \subseteq vlast.sat

\* C2: after every mutating call the viable set of v is a subset of the
\* viable set before the call
C2_MonotonicShrink ==
    vlast.op \in Mutators => ViableNow(vlast.v) \subseteq ViableBefore(vlast.v)

\* C4: every mutating call pushes exactly one entry (v, prior domain of v) on
\* the viable trail; every pop_viable restores m_viable to what it was before
\* the call it undoes and changes the domain of the popped variable only
C4_ExactRestore ==
    /\ Len(m_viable_trail) = Len(vhist)
    /\ s_trail = Len(m_viable_trail)
    /\ \A i \in 1 .. Len(m_viable_trail) :
           m_viable_trail[i][2] = vhist[i][m_viable_trail[i][1]]
    /\ vlast.op \in Mutators =>
           /\ Len(m_viable_trail) > 0
           /\ m_viable_trail[Len(m_viable_trail)] = <<vlast.v, vlast.before[vlast.v]>>
           /\ vhist[Len(vhist)] = vlast.before
    /\ vlast.op = "pop" =>
           /\ m_viable = vlast.expect
           /\ \A u \in PVars \ {vlast.v} : m_viable[u] = vlast.before[u]

\* two calls on different variables, the second undone: the first is still
\* on the trail and the domain of the second variable is back
C4_Witness ==
    /\ vlast.op = "pop"
    /\ Len(m_viable_trail) = 1
    /\ m_viable_trail[1][1] # vlast.v
    /\ m_viable[vlast.v] # vlast.before[vlast.v]
    /\ m_viable[m_viable_trail[1][1]] # m_viable_trail[1][2]

\* C5: after add_non_viable(v, val), val is not viable and every other value
\* is viable exactly when it was before
C5_ExcludesOnePoint ==
    vlast.op = "ne" => ViableNow(vlast.v) = ViableBefore(vlast.v) \cap vlast.sat

\* C6: intersect_eq and intersect_ule remove no value that satisfies the
\* asserted constraint
C6_Completeness ==
    vlast.op \in {"eq", "ule"} =>
        (ViableBefore(vlast.v) \cap vlast.sat) \subseteq ViableNow(vlast.v)

\* the search used the whole budget, the diagram fallback raised lo further,
\* values were removed and a value that satisfies the constraint is left
C6_Witness ==
    /\ vlast.op = "ule"
    /\ vlast.budget = 0
    /\ m_viable[vlast.v].lo > vlast.before[vlast.v].lo + Budget
    /\ ViableNow(vlast.v) # ViableBefore(vlast.v)
    /\ ViableNow(vlast.v) \cap vlast.sat # {}

\* C8: a mutating call invokes s.set_conflict(v), once, exactly when no value
\* of v is viable when it returns
C8_ConflictNotified ==
    vlast.op \in Mutators =>
        /\ ViableNow(vlast.v) = {} => vlast.conflict = <<vlast.v>>
        /\ ViableNow(vlast.v) # {} => vlast.conflict = <<>>

\* a call that empties a domain that had viable values, and notifies
C8_Witness ==
    /\ vlast.op \in Mutators
    /\ ViableBefore(vlast.v) # {}
    /\ ViableNow(vlast.v) = {}
    /\ vlast.conflict = <<vlast.v>>

\* ------------------------------------------------------------------------
\* Properties of the linear solver
\* ------------------------------------------------------------------------

\* the undo calls of a pop, as <<undo, sz>>, against the mutations it undoes
PopRestores(trail) ==
    /\ m_trail = trail
    /\ m_rows = llast.snap.rows
    /\ m_sz2num_vars = llast.snap.nv
    /\ m_mono2var = llast.snap.m2v
    /\ m_monomials = llast.snap.monos
    /\ Undos(llast.calls) = llast.expected

LastKey(l) == IF l.op = "pvar2var" THEN <<l.args[2]>> ELSE l.args[2]

InternOps == {"mono2var", "pvar2var"}

\* C7: a monomial in the interning table stays there until a pop; mono2var
\* on a monomial of the table returns the variable stored with it and adds
\* nothing to the trail, the table or the counters; the monomial a call
\* returns a variable for is in the table with that variable afterwards;
\* pvar2var(sz, p) returns what mono2var(sz, [p]) returns
C7_Interning ==
    [][/\ \A e \in m_mono2var :
              /\ llast'.op # "pop" => e \in m_mono2var'
              /\ (/\ llast'.op \in InternOps
                  /\ llast'.args[1] = e.sz
                  /\ LastKey(llast') = e.vars) =>
                     /\ llast'.ret = e.var
                     /\ UNCHANGED <<m_trail, m_rows, m_sz2num_vars,
                                    m_mono2var, m_monomials>>
       /\ llast'.op \in InternOps =>
              [sz |-> llast'.args[1], vars |-> LastKey(llast'), var |-> llast'.ret]
                  \in m_mono2var'
       /\ llast'.op = "pvar2var" =>
              llast'.ret = mono2var(LState, llast'.args[1], <<llast'.args[2]>>).ret
      ]_vars

\* a second mono2var call on a monomial interned before, two variables of
\* the width allocated since
C7_Witness ==
    /\ llast.op = "mono2var"
    /\ \E e \in llast.before.m2v :
           /\ e.sz = llast.args[1]
           /\ e.vars = llast.args[2]
           /\ e.var = llast.ret
           /\ m_sz2num_vars[e.sz] > e.var + 1

\* the constructed engines, and those of them that report l_false
Constructed == {sz \in LWidths : m_fix[sz].alloc}

\* C9: check() returns l_false iff some constructed engine reports l_false,
\* and then has consulted the engines up to the first such one, in the order
\* of m_fix, and no other; else it has consulted every constructed engine,
\* and returns l_undef iff one of them reports l_undef, else l_true; it
\* changes neither the trail nor any other state of the router
C9_CheckAggregates ==
    [][llast'.op = "check" =>
          LET results   == llast'.args[1]
              ret       == llast'.ret.ret
              consulted == llast'.ret.consulted
              False     == {sz \in Constructed : results[sz] = "l_false"}
              Undef     == {sz \in Constructed : results[sz] = "l_undef"}
          IN  /\ UNCHANGED <<m_trail, m_rows, m_sz2num_vars, m_mono2var,
                             m_monomials, m_fix, m_bool_var2row, lstatus>>
              /\ ret = "l_false" <=> False # {}
              /\ \A i \in 1 .. (Len(consulted) - 1) : consulted[i] < consulted[i + 1]
              /\ {consulted[i] : i \in 1 .. Len(consulted)} =
                     {sz \in Constructed : \A f \in False : sz <= f}
              /\ False = {} => (ret = "l_undef" <=> Undef # {})
              /\ (False = {} /\ Undef = {}) => ret = "l_true"
      ]_vars

\* two engines constructed, the first reports l_false and the second is
\* not consulted
C9_Witness ==
    /\ llast.op = "check"
    /\ llast.ret.ret = "l_false"
    /\ Len(llast.ret.consulted) = 1
    /\ \E sz \in Constructed : sz > llast.ret.consulted[1]

RouterOps == {"new_eq", "new_le", "assert_eq", "assert_le", "set_value", "set_bound"}

\* C10: a registration, an activation, set_value or set_bound on an operand
\* whose width is not 32, 64 or 256 ends in NOT_IMPLEMENTED_YET, and every
\* engine call of an operation is made on the engine of the operand's width
C10_UnsupportedAborts ==
    llast.op \in RouterOps =>
        /\ llast.args[2] \notin {32, 64, 256} => llast.outcome = "abort"
        /\ \A i \in 1 .. Len(llast.calls) : llast.calls[i][2] = llast.args[2]

\* the constraint an activation was called on
LastCon == constraints[llast.args[1]]

\* the engine calls of the last operation that set bounds
BoundCalls == {i \in 1 .. Len(llast.calls) : llast.calls[i][1] = "set_bounds"}

\* C11: assert_le with negative polarity on v <= 2^w - 1, and on 0 <= w,
\* raises "conflict not implemented" and makes no set_bounds call
C11_ContradictionThrows ==
    (/\ llast.op = "assert_le"
     /\ llast.args[3] = FALSE
     /\ llast.outcome # "abort"
     /\ \/ (pdd_is_val(LastCon.rhs) /\ pdd_val(LastCon.rhs) = MaxVal)
        \/ (~pdd_is_val(LastCon.rhs) /\ pdd_is_val(LastCon.lhs)
            /\ pdd_val(LastCon.lhs) = Num(0)))
    => (llast.outcome = "throw" /\ BoundCalls = {})

\* C12: find_viable(v) returns empty iff no value of v is viable; otherwise
\* its witness is the hint when the hint is viable and the low bound when it
\* is not, the witness is viable, and the result is singleton iff exactly
\* one value is viable, multiple otherwise
C12_FindViable ==
    vlast.op = "find" =>
        LET f == vlast.found
            n == Cardinality(ViableNow(vlast.v))
        IN  /\ f.find = "empty" <=> n = 0
            /\ f.find = "singleton" <=> n = 1
            /\ f.find = "multiple" <=> n > 1
            /\ n > 0 =>
                   /\ is_viable(vlast.v, f.val)
                   /\ f.val = IF is_viable(vlast.v, vlast.hint) THEN vlast.hint
                              ELSE m_viable[vlast.v].lo

\* a query on a domain of several values that does not hold the hint
C12_Witness ==
    /\ vlast.op = "find"
    /\ vlast.found.find = "multiple"
    /\ ~is_viable(vlast.v, vlast.hint)
    /\ vlast.found.val = m_viable[vlast.v].lo
    /\ vlast.found.val > vlast.hint

\* the entries of the cache, less their activity counters
CacheKeys(cache) == [i \in 1 .. Len(cache) |-> cache[i].key]

CacheReprs(cache) == [i \in 1 .. Len(cache) |-> cache[i].repr]

\* C13: the cache never holds two entries of one key; a call that does not
\* run the diagram fallback, and pop_viable, leave the cache as it is; a
\* fallback either inserts one entry, of a key that was not in the cache, or
\* inserts nothing and adds one to the activity of one entry, whichever
\* variable triggers it
C13_CacheKeyed ==
    [][/\ \A i, j \in 1 .. Len(m_ineq_cache') :
              m_ineq_cache'[i].key = m_ineq_cache'[j].key => i = j
       /\ ~(vlast'.op = "ule" /\ vlast'.budget = 0) => UNCHANGED m_ineq_cache
       /\ (vlast'.op = "ule" /\ vlast'.budget = 0) =>
              \/ /\ Len(m_ineq_cache') = Len(m_ineq_cache) + 1
                 /\ SubSeq(m_ineq_cache', 1, Len(m_ineq_cache)) = m_ineq_cache
                 /\ cache_find(m_ineq_cache,
                               m_ineq_cache'[Len(m_ineq_cache')].key) = {}
                 /\ m_ineq_cache'[Len(m_ineq_cache')].m_activity = 1
              \/ /\ CacheKeys(m_ineq_cache') = CacheKeys(m_ineq_cache)
                 /\ CacheReprs(m_ineq_cache') = CacheReprs(m_ineq_cache)
                 /\ \E i \in 1 .. Len(m_ineq_cache) :
                        /\ m_ineq_cache'[i].m_activity = m_ineq_cache[i].m_activity + 1
                        /\ \A j \in 1 .. Len(m_ineq_cache) :
                               j # i => m_ineq_cache'[j] = m_ineq_cache[j]
      ]_vars

\* the fallback ran for two variables, one after the other, and the second
\* used the entry the first had inserted
C13_Witness ==
    /\ vlast.op = "ule"
    /\ vlast.budget = 0
    /\ Len(m_viable_trail) = 2
    /\ m_viable_trail[1][1] # vlast.v
    /\ Len(m_ineq_cache) = 1
    /\ m_ineq_cache[1].m_activity = 2

\* C14: add_non_viable(v, val) on a value that is not viable before the call
\* (the empty domain included) leaves the domain of v and the viable trail as
\* they were and does not invoke the conflict callback
C14_NoOpWhenExcluded ==
    [][(vlast'.op = "ne" /\ ~contains(m_viable[vlast'.v], CHOOSE x \in Values(num_bits) : x \notin vlast'.sat))
        => /\ m_viable' = m_viable
           /\ m_viable_trail' = m_viable_trail
           /\ vlast'.conflict = <<>>]_vars

\* C15: from the free domain, intersect_eq(1, v, -k mod 2^w, true) makes the
\* viable set exactly {k} without a conflict; add_non_viable(v, k) right after
\* it empties the domain, and the two calls invoke the callback once in all
C15_PointThenExclude ==
    [][/\ (vlast'.op = "eq" /\ is_free(m_viable[vlast'.v]))
            => /\ Cardinality(vlast'.sat) = 1
               /\ {x \in Values(num_bits) : contains(m_viable'[vlast'.v], x)} = vlast'.sat
               /\ vlast'.conflict = <<>>
       /\ (/\ vlast.op = "eq" /\ is_free(vlast.before[vlast.v])
           /\ vlast'.op = "ne" /\ vlast'.v = vlast.v
           /\ vlast'.sat = Values(num_bits) \ vlast.sat)
            => /\ is_empty(m_viable'[vlast.v])
               /\ Len(vlast.conflict) + Len(vlast'.conflict) = 1]_vars

\* v = 2^w - 1 on the free domain of the widest variable, then v # 2^w - 1
C15_Witness ==
    /\ num_bits = MaxBits
    /\ vlast.op = "ne"
    /\ vlast.sat = Values(num_bits) \ {Pow2(num_bits) - 1}
    /\ Len(m_viable_trail) = 2
    /\ m_viable_trail[1] = <<vlast.v, free(num_bits)>>
    /\ m_viable_trail[2][1] = vlast.v
    /\ is_singleton(m_viable_trail[2][2])
    /\ contains(m_viable_trail[2][2], Pow2(num_bits) - 1)
    /\ is_empty(m_viable[vlast.v])
    /\ vlast.conflict = <<vlast.v>>

\* C16: from the free domain, intersect_ule(v, 1, 0, 0, h, true) followed by
\* intersect_ule(v, 0, l, 1, 0, true) with l <= h makes the viable set l .. h
C16_Band ==
    [][\A l, h \in Values(num_bits) :
          (/\ l <= h
           /\ vlast.op = "ule" /\ is_free(vlast.before[vlast.v])
           /\ vlast.sat = 0 .. h
           /\ vlast'.op = "ule" /\ vlast'.v = vlast.v
           /\ vlast'.sat = l .. (Pow2(num_bits) - 1))
            => {x \in Values(num_bits) : contains(m_viable'[vlast.v], x)} = l .. h]_vars

\* v <= 5 and then 2 <= v on the free domain of the widest variable
C16_Witness ==
    /\ num_bits = MaxBits
    /\ vlast.op = "ule"
    /\ vlast.sat = 2 .. (Pow2(num_bits) - 1)
    /\ Len(m_viable_trail) = 2
    /\ m_viable_trail[1] = <<vlast.v, free(num_bits)>>
    /\ m_viable_trail[2] = <<vlast.v, [free(num_bits) EXCEPT !.hi = 6]>>
    /\ ViableNow(vlast.v) = 2 .. 5

\* C17: when the narrowing search of intersect_eq has used up its budget, the
\* call does not return with values in the domain that violate the constraint
\* (it returns nothing to its caller, so it cannot report "incomplete")
C17_BudgetNotSilent ==
    (vlast.op = "eq" /\ vlast.budget = 0) => ViableNow(vlast.v) \subseteq vlast.sat

\* C18: in a call that only runs viable_set::narrow, every unit of budget
\* consumed by a probe removes one value (lo or hi - 1) from the domain, so
\* the budget consumed equals the number of values removed
C18_ProbesShrink ==
    (\/ vlast.op = "eq" /\ vlast.budget < Budget
     \/ vlast.op = "ule" /\ 0 < vlast.budget /\ vlast.budget < Budget)
        => Budget - vlast.budget
             = Cardinality(ViableBefore(vlast.v) \ ViableNow(vlast.v))

\* the trail and m_rows as the last call found them
TrailBefore == llast.before.trail

RowsBefore == llast.before.rows

\* C19, as stated: every call of assert_eq or assert_le adds exactly one
\* entry to the trail and exactly one record to m_rows
C19_OneEntry_AsStated ==
    llast.op \in {"assert_eq", "assert_le"}
        => /\ Len(m_trail) = Len(TrailBefore) + 1
           /\ Len(m_rows) = Len(RowsBefore) + 1

\* C19, amended: a call of assert_eq or assert_le that returns makes one
\* engine call and appends one trail entry, set_bound_i for set_bounds and
\* add_ineq_i for add_le or add_lt, and one m_rows record <<var, width>> with
\* the width of the engine called and a variable of the call; a call that
\* throws or ends the process appends nothing
C19_OneEntry ==
    llast.op \in {"assert_eq", "assert_le"}
        => IF llast.outcome = "ok"
           THEN /\ Len(llast.calls) = 1
                /\ LET c == llast.calls[1]
                   IN  /\ c[1] \in {"set_bounds", "add_le", "add_lt"}
                       /\ m_trail = Append(TrailBefore,
                                           IF c[1] = "set_bounds" THEN "set_bound_i"
                                           ELSE "add_ineq_i")
                       /\ m_rows = Append(RowsBefore,
                                          <<IF c[1] = "add_lt" THEN c[4] ELSE c[3], c[2]>>)
           ELSE /\ llast.calls = <<>>
                /\ m_trail = TrailBefore
                /\ m_rows = RowsBefore

\* a strict inequality between two internal variables has been asserted
C19_Witness ==
    /\ llast.op = "assert_le"
    /\ llast.outcome = "ok"
    /\ llast.calls[1][1] = "add_lt"
    /\ llast.calls[1][3] # llast.calls[1][4]
    /\ m_trail[Len(m_trail)] = "add_ineq_i"
    /\ m_rows[Len(m_rows)] = <<llast.calls[1][4], llast.calls[1][2]>>

\* the trail entries that are pushed with an m_rows record
RowKinds == {"add_var_i", "set_bound_i", "add_row_i", "add_ineq_i"}

C21_BoundsDenote ==
    (/\ llast.op \in {"assert_eq", "assert_le"}
     /\ llast.outcome = "ok"
     /\ BoundCalls # {})
    => LET call     == llast.calls[CHOOSE i \in BoundCalls : TRUE]
           lo       == call[4]
           hi       == call[5]
           positive == llast.args[3]
           Range(from, to) == [from |-> from, to |-> to]
           admitted == IF lo = hi THEN Range(Num(0), MaxVal)
                       ELSE Range(lo, IF hi = Num(0) THEN MaxVal ELSE NumAdd(hi, -1))
           expected ==
               IF llast.op = "assert_eq"
               THEN IF positive THEN Range(Num(0), Num(0)) ELSE Range(Num(1), MaxVal)
               ELSE IF pdd_is_val(LastCon.rhs)
               THEN IF positive THEN Range(Num(0), pdd_val(LastCon.rhs))
                    ELSE Range(NumAdd(pdd_val(LastCon.rhs), 1), MaxVal)
               ELSE IF positive THEN Range(pdd_val(LastCon.lhs), MaxVal)
                    ELSE Range(Num(0), NumAdd(pdd_val(LastCon.lhs), -1))
       IN  admitted = expected

\* C22: every entry of m_bool_var2row that assert_eq or assert_le can read
\* (its constraint is registered) names internal variables that are
\* allocated for the width of the constraint, id < m_sz2num_vars[width], and
\* that still stand for the polynomial they were registered for: the
\* interned variable of its monomial, or the variable of its row
C22_NoDangling ==
    lstatus = "ok" =>
        \A b \in BVars :
            constraints[b].kind # "none" =>
                LET c  == constraints[b]
                    l  == IF c.kind = "eq_t" THEN c.p ELSE c.lhs
                    r  == IF c.kind = "eq_t" THEN c.p ELSE c.rhs
                    sz == l.sz
                    Denotes(x, p) ==
                        IF Len(p.monos) = 1 /\ p.monos[1].coeff = Num(1)
                        THEN \E e \in m_mono2var :
                                 e.sz = sz /\ e.vars = p.monos[1].vars /\ e.var = x
                        ELSE \E i \in 1 .. Len(m_fix[sz].rows) : m_fix[sz].rows[i][1] = x
                IN  /\ b + 1 <= Len(m_bool_var2row)
                    /\ m_bool_var2row[b + 1][1] < m_sz2num_vars[sz]
                    /\ m_bool_var2row[b + 1][2] < m_sz2num_vars[sz]
                    /\ Denotes(m_bool_var2row[b + 1][1], l)
                    /\ Denotes(m_bool_var2row[b + 1][2], r)

====
